---- MODULE Spec2Model ----
(***************************************************************************)
(* A model of the discovery core of tailscalesd:                           *)
(*   - RateLimitedDiscoverer (src/ratelimited.go): a cache in front of one *)
(*     Discoverer, refreshed at most once per Frequency on success;        *)
(*   - MultiDiscoverer (src/multi.go): a concurrent fan-out over several   *)
(*     Discoverers with a registration-ordered merge.                     *)
(* Goroutines are modelled as processes with a program counter; every     *)
(* action is one atomic step of the Go code between two points where      *)
(* another goroutine can observe or change shared state.                  *)
(* The prometheus counters (rateLimitedRequests, ...) are write-only       *)
(* instrumentation that no control flow reads; they are not modelled.      *)
(***************************************************************************)
EXTENDS Integers, Sequences, FiniteSets, TLC

(***************************************************************************)
(* Bounds of the model.                                                    *)
(***************************************************************************)
MaxCalls == 3        \* Devices calls started in one behaviour
MaxTime == 3         \* the clock runs over 1..MaxTime
MaxFrequency == 1    \* Frequency ranges over 0..MaxFrequency
NumDiscoverers == 3  \* a MultiDiscoverer holds 0..NumDiscoverers discoverers
MaxDevices == 2      \* translate and the handler get 0..MaxDevices devices
MaxFilters == 2      \* translate gets 0..MaxFilters filters

\* The goroutines that call RateLimitedDiscoverer.Devices concurrently.
Callers == {1, 2}
\* The zero sync.RWMutex: no goroutine holds it for writing.
Unlocked == 0

\* The zero time.Time (year 1); every reading of the clock is after it.
ZeroTime == 0

\* In the history variables: no time recorded.
NoTime == ZeroTime

\* Device lists a Discoverer may return. A Device is identified by its ID.
DeviceLists == {<< >>, <<"d2", "d1">>}

(***************************************************************************)
(* Errors. An error value is either nil or a record holding the set of     *)
(* sentinel identities errors.Is finds in its Unwrap tree and its text.    *)
(***************************************************************************)
NoError == [nil |-> TRUE, tree |-> {}, text |-> << >>]

\* errors.New(msg): a sentinel that matches only itself.
NewError(msg) == [nil |-> FALSE, tree |-> {msg}, text |-> <<msg>>]

\* errors.Is(err, target) for a sentinel target made by errors.New.
ErrorsIs(err, target) ==
    /\ ~err.nil
    /\ ~target.nil
    /\ target.tree \subseteq err.tree

\* fmt.Errorf("%w: %v", w, v): only the %w operand stays in the Unwrap
\* tree; the %v operand is flattened into the text.
ErrorfWV(w, v) ==
    [nil |-> FALSE, tree |-> w.tree, text |-> w.text \o <<": ">> \o v.text]

\* errors.Join(a, b): nil operands are discarded; nil when both are nil.
ErrorsJoin(a, b) ==
    IF a.nil /\ b.nil THEN NoError
    ELSE IF a.nil THEN [nil |-> FALSE, tree |-> b.tree, text |-> b.text]
    ELSE IF b.nil THEN [nil |-> FALSE, tree |-> a.tree, text |-> a.text]
    ELSE [nil |-> FALSE, tree |-> a.tree \cup b.tree,
          text |-> a.text \o <<"\n">> \o b.text]

errStaleResults == NewError("stale discovery results")

\* The errors the wrapped (upstream) source can fail with.
SourceErrors == {NewError("request failed")}

\* What one call of a Discoverer's Devices can return: a device list and
\* a nil or non-nil error. A failing call may still return devices.
Outcomes == [devices : DeviceLists, err : SourceErrors \cup {NoError}]

(***************************************************************************)
(* State.                                                                  *)
(***************************************************************************)
VARIABLES
    \* --- RateLimitedDiscoverer --------------------------------------
    now,          \* the clock, time.Now()
    Frequency,    \* c.Frequency
    earliest,     \* c.earliest
    last,         \* c.last
    readers,      \* goroutines holding c.mu for reading
    writer,       \* goroutine holding (or waiting to hold) c.mu for writing
    started,      \* number of c.Devices calls started so far
    pc,           \* pc[p]: where goroutine p is in Devices/refreshDevices
    expired,      \* local `expired` of Devices
    lastCopy,     \* local `last` of Devices
    devices,      \* local `devices` of refreshDevices
    err,          \* local `err` of refreshDevices
    ret,          \* what the finished Devices call returned
    retShared,    \* the returned slice has c.last's backing array
    mutated,      \* the caller has written to the slice it was returned
    \* --- history, kept to state properties of finished calls ---------
    callsInCall,  \* calls of c.Wrap.Devices this Devices call has begun
    wasExpired,   \* whether the clock was past c.earliest at the read
    seenLast,     \* c.last as it was at the read
    changedSince, \* c.last or c.earliest was stored to since the read
    at,           \* time of this call's read, then of its update or failure
    updLast,      \* the latest cache update: <<devices stored, time>>
    updPrev,      \* the update before updLast
    priorUpd,     \* of updLast at the read: <<devices, read before its
                  \* time + Frequency>>
    priorUpd2,    \* the same of updPrev
    prevOutcome,  \* outcome of this goroutine's previous call
    prevCalls,    \* callsInCall of this goroutine's previous call
    prevAt,       \* `at` of the previous call, until this call's read
    soonAfterPrev,\* this call read less than Frequency after prevAt
    lastBegin,    \* begin time of the latest call of Wrap.Devices
    beganAt,      \* beganAt[p]: when the wrapped call of p began, until
                  \* its result is stored or it has failed
    lastFrom,     \* when the wrapped call began whose result c.last holds
    overlap,      \* overlap[p]: the callers that had found the cache
                  \* expired and not yet returned when p found it expired,
                  \* or that found it so before p returned
    \* --- MultiDiscoverer ---------------------------------------------
    n,            \* len(md), the number of contained discoverers
    mpc,          \* where the goroutine calling md.Devices is
    idx,          \* the loop variable i of the launching loop (from 1)
    wg,           \* the WaitGroup counter
    results,      \* the results slice, one slot per discoverer
    tpc,          \* tpc[i]: where the goroutine launched for md[i] is
    mret,         \* what md.Devices returned
    canceled,     \* the ctx passed to md.Devices is canceled
    \* --- history --------------------------------------------------
    outcome,      \* outcome[i]: what md[i].Devices returned
    outOfOrder,   \* a sub-call returned before one registered earlier
    launches,     \* launches[i]: goroutines started for md[i]
    subCalls,     \* subCalls[i]: calls of md[i].Devices begun
    writers,      \* writers[k]: the goroutines that stored to results[k],
                  \* in the order of their stores
    \* --- translate ---------------------------------------------------
    trpc,         \* whether translate has been called and has returned
    trDevices,    \* the argument `devices`
    trFilters,    \* the argument `filters`
    trFound,      \* the result `found`
    \* --- discoveryHandler --------------------------------------------
    hd,           \* h.d, the Discoverer the handler was exported with
    hpc,          \* where ServeHTTP is
    targets,      \* local `targets` of ServeHTTP
    herr,         \* local `err` of ServeHTTP
    resp,         \* the response written to w
    \* --- main of cmd/tailscalesd ---------------------------------------
    flags,        \* the flag variables after pflag.Parse()
    mainpc,       \* where main is
    tsd,          \* ts, the Discoverer main builds, outermost layer first
    filters,      \* the target filters main collects
    output,       \* what main has printed, in order
    handled,      \* what is registered at "/" by http.Handle
    serving,      \* server.ListenAndServe has been called
    \* --- publicAPIDiscoverer.Devices ----------------------------------
    papc,         \* where Devices is
    paURLValid,   \* the URL made of token, apiBase and tailnet parses
    paServer,     \* what the server answers: status code and body
    paRequests,   \* requests sent by a.client.Do in this call
    paReceived,   \* a.client.Do returned a response
    paRet         \* what Devices returned

rlVars == <<now, Frequency, earliest, last, readers, writer, started,
            pc, expired, lastCopy, devices, err, ret, retShared, mutated>>
rlHist == <<callsInCall, wasExpired, seenLast, changedSince, at, updLast, updPrev,
            priorUpd, priorUpd2, prevOutcome, prevCalls, prevAt,
            soonAfterPrev, lastBegin, overlap, beganAt, lastFrom>>

mdVars == <<n, mpc, idx, wg, results, tpc, mret, canceled, outcome,
            outOfOrder,
           launches, subCalls, writers>>

trVars == <<trpc, trDevices, trFilters, trFound>>

hVars == <<hd, hpc, targets, herr, resp>>

mainVars == <<flags, mainpc, tsd, filters, output, handled, serving>>

paVars == <<papc, paURLValid, paServer, paRequests, paReceived, paRet>>

vars == <<rlVars, rlHist, mdVars, trVars, hVars, mainVars, paVars>>

(***************************************************************************)
(* RateLimitedDiscoverer: the pure parts of Devices and refreshDevices.    *)
(***************************************************************************)
\* A bug: Before written for After.
Expired_Before(t, e) == t < e

\* A bug: the instant `earliest` itself counts as expired.
Expired_NotBefore(t, e) == t >= e

\* expired := time.Now().After(c.earliest)
Expired(t, e) == t > e

\* last := make([]Device, len(c.last)); copy(last, c.last)
CopyOf(s) == [i \in 1..Len(s) |-> s[i]]

\* fmt.Errorf("%w: %v", errStaleResults, err)
StaleError(e) == ErrorfWV(errStaleResults, e)

\* return devices, fmt.Errorf(...): the failed call's own devices; the
\* copy of the cache made by Devices is not used.
FailureReturn(devs, cached, e) == [devices |-> devs, err |-> StaleError(e)]

\* A bug: the call that refreshed is answered nothing.
SuccessReturn_Empty(devs) == [devices |-> << >>, err |-> NoError]

\* return devices, nil
SuccessReturn(devs) == [devices |-> devs, err |-> NoError]

\* return last, nil
HitReturn(cached) == [devices |-> cached, err |-> NoError]

\* A bug: the cache is bypassed, every call refreshes.
AfterRead_AlwaysRefresh(isExpired) == "refresh"

\* if expired { return c.refreshDevices(ctx) }
AfterRead(isExpired) == IF isExpired THEN "refresh" ELSE "done"

\* A bug: the frequency is not added.
NextEarliest_Now(t, f) == t

\* time.Now().Add(c.Frequency)
NextEarliest(t, f) == t + f

\* A bug: the stores are done before the error is looked at.
EarliestOnFailure_Stored(e, t, f) == t + f

\* if err != nil { return ... }: refreshDevices returns before the stores,
\* so c.earliest keeps its value e.
EarliestOnFailure(e, t, f) == e

NoReturn == [devices |-> << >>, err |-> NoError]
NoUpdate == << >>

\* How a finished call ended: served from the cache, refreshed, or failed.
OutcomeOf(p) ==
    IF pc[p] # "done" THEN "none"
    ELSE IF ret[p].err.nil
         THEN (IF callsInCall[p] = 0 THEN "hit" ELSE "ok")
         ELSE "fail"

\* The call of p is inside refreshDevices.
Refreshing(p) ==
    pc[p] \in {"refresh", "inflight", "lock", "lockwait", "storeEarliest"}

\* The other callers that have found the cache expired and have not
\* returned from their refresh.
RefreshingWith(p) ==
    {q \in Callers \ {p} :
       (pc[q] = "runlock" /\ expired[q]) \/ Refreshing(q)}

\* What a call reading the cache at time t records of the update u.
PriorOf(u, t) ==
    IF u = NoUpdate THEN NoUpdate ELSE <<u[1], t < u[2] + Frequency>>

RLInit ==
    /\ now = 1
    /\ Frequency \in 0..MaxFrequency
    /\ earliest = ZeroTime
    /\ last = << >>
    /\ readers = {}
    /\ writer = Unlocked
    /\ started = 0
    /\ pc = [p \in Callers |-> "idle"]
    /\ expired = [p \in Callers |-> FALSE]
    /\ lastCopy = [p \in Callers |-> << >>]
    /\ devices = [p \in Callers |-> << >>]
    /\ err = [p \in Callers |-> NoError]
    /\ ret = [p \in Callers |-> NoReturn]
    /\ retShared = [p \in Callers |-> FALSE]
    /\ mutated = [p \in Callers |-> FALSE]
    /\ callsInCall = [p \in Callers |-> 0]
    /\ wasExpired = [p \in Callers |-> FALSE]
    /\ seenLast = [p \in Callers |-> << >>]
    /\ changedSince = [p \in Callers |-> FALSE]
    /\ at = [p \in Callers |-> NoTime]
    /\ updLast = NoUpdate
    /\ updPrev = NoUpdate
    /\ priorUpd = [p \in Callers |-> NoUpdate]
    /\ priorUpd2 = [p \in Callers |-> NoUpdate]
    /\ prevOutcome = [p \in Callers |-> "none"]
    /\ prevCalls = [p \in Callers |-> 0]
    /\ prevAt = [p \in Callers |-> NoTime]
    /\ soonAfterPrev = [p \in Callers |-> FALSE]
    /\ lastBegin = NoTime
    /\ beganAt = [p \in Callers |-> NoTime]
    /\ lastFrom = NoTime
    /\ overlap = [p \in Callers |-> {}]

\* The clock advances; time.Now() never goes backwards.
Tick ==
    /\ now < MaxTime
    /\ UNCHANGED <<mdVars, trVars, hVars, mainVars, paVars>>
    /\ UNCHANGED <<retShared, mutated>>
    /\ now' = now + 1
    /\ UNCHANGED <<Frequency, earliest, last, readers, writer, started, pc,
                   expired, lastCopy, devices, err, ret, rlHist>>

\* A goroutine enters Devices; its locals are fresh.
Call(p) ==
    /\ pc[p] \in {"idle", "done"}
    /\ UNCHANGED <<mdVars, trVars, hVars, mainVars, paVars>>
    /\ started < MaxCalls
    /\ started' = started + 1
    /\ prevOutcome' = [prevOutcome EXCEPT ![p] = OutcomeOf(p)]
    /\ prevCalls' = [prevCalls EXCEPT ![p] = callsInCall[p]]
    /\ prevAt' = [prevAt EXCEPT ![p] = at[p]]
    /\ pc' = [pc EXCEPT ![p] = "rlock"]
    /\ expired' = [expired EXCEPT ![p] = FALSE]
    /\ lastCopy' = [lastCopy EXCEPT ![p] = << >>]
    /\ devices' = [devices EXCEPT ![p] = << >>]
    /\ err' = [err EXCEPT ![p] = NoError]
    /\ ret' = [ret EXCEPT ![p] = NoReturn]
    /\ retShared' = [retShared EXCEPT ![p] = FALSE]
    /\ mutated' = [mutated EXCEPT ![p] = FALSE]
    /\ callsInCall' = [callsInCall EXCEPT ![p] = 0]
    /\ wasExpired' = [wasExpired EXCEPT ![p] = FALSE]
    /\ seenLast' = [seenLast EXCEPT ![p] = << >>]
    /\ changedSince' = [changedSince EXCEPT ![p] = FALSE]
    /\ at' = [at EXCEPT ![p] = NoTime]
    /\ priorUpd' = [priorUpd EXCEPT ![p] = NoUpdate]
    /\ priorUpd2' = [priorUpd2 EXCEPT ![p] = NoUpdate]
    /\ soonAfterPrev' = [soonAfterPrev EXCEPT ![p] = FALSE]
    /\ overlap' = [q \in Callers |-> IF q = p THEN {} ELSE overlap[q] \ {p}]
    /\ UNCHANGED <<now, Frequency, earliest, last, readers, writer,
                   updLast, updPrev, lastBegin, beganAt, lastFrom>>

\* A bug: the read is made without the lock.
MayRLock_Always(w) == TRUE

\* c.mu.RLock() returns when no writer holds or waits for the lock.
MayRLock(w) == w = Unlocked

\* c.mu.RLock() succeeds (it blocks while a writer holds or waits for the
\* lock); then, under the read lock, `expired` is computed and c.last is
\* copied.
RLockRead(p) ==
    /\ pc[p] = "rlock"
    /\ UNCHANGED <<mdVars, trVars, hVars, mainVars, paVars>>
    /\ UNCHANGED <<retShared, mutated>>
    /\ MayRLock(writer)
    /\ readers' = readers \cup {p}
    /\ expired' = [expired EXCEPT ![p] = Expired(now, earliest)]
    /\ lastCopy' = [lastCopy EXCEPT ![p] = CopyOf(last)]
    /\ wasExpired' = [wasExpired EXCEPT ![p] = now > earliest]
    /\ seenLast' = [seenLast EXCEPT ![p] = last]
    /\ changedSince' = [changedSince EXCEPT ![p] = FALSE]
    /\ at' = [at EXCEPT ![p] = now]
    /\ priorUpd' = [priorUpd EXCEPT ![p] = PriorOf(updLast, now)]
    /\ priorUpd2' = [priorUpd2 EXCEPT ![p] = PriorOf(updPrev, now)]
    /\ soonAfterPrev' = [soonAfterPrev EXCEPT ![p] =
                           prevAt[p] # NoTime /\ now - prevAt[p] < Frequency]
    /\ prevAt' = [prevAt EXCEPT ![p] = NoTime]
    /\ overlap' = IF Expired(now, earliest)
                  THEN [q \in Callers |->
                          IF q = p THEN RefreshingWith(p)
                          ELSE IF q \in RefreshingWith(p)
                               THEN overlap[q] \cup {p}
                               ELSE overlap[q]]
                  ELSE overlap
    /\ pc' = [pc EXCEPT ![p] = "runlock"]
    /\ UNCHANGED <<now, Frequency, earliest, last, writer, started, devices,
                   err, ret, callsInCall, updLast, updPrev, prevOutcome,
                   prevCalls, lastBegin, beganAt, lastFrom>>

\* A bug: the read lock is released by a defer, when Devices returns.
ReadersAfterRUnlock_Deferred(rs, p) == rs

\* c.mu.RUnlock(): p leaves the readers before refreshDevices is called.
ReadersAfterRUnlock(rs, p) == rs \ {p}

\* c.mu.RUnlock(), then: if expired, go on to refreshDevices; otherwise
\* return the copy.
RUnlock(p) ==
    /\ pc[p] = "runlock"
    /\ UNCHANGED <<mdVars, trVars, hVars, mainVars, paVars>>
    /\ UNCHANGED <<retShared, mutated>>
    /\ readers' = ReadersAfterRUnlock(readers, p)
    /\ pc' = [pc EXCEPT ![p] = AfterRead(expired[p])]
    /\ IF AfterRead(expired[p]) = "done"
       THEN ret' = [ret EXCEPT ![p] = HitReturn(lastCopy[p])]
       ELSE UNCHANGED ret
    /\ UNCHANGED <<now, Frequency, earliest, last, writer, started, expired,
                   lastCopy, devices, err, rlHist>>

\* refreshDevices calls c.Wrap.Devices(ctx); no lock is held.
WrapBegin(p) ==
    /\ pc[p] = "refresh"
    /\ UNCHANGED <<mdVars, trVars, hVars, mainVars, paVars>>
    /\ UNCHANGED <<retShared, mutated>>
    /\ callsInCall' = [callsInCall EXCEPT ![p] = @ + 1]
    /\ lastBegin' = now
    /\ beganAt' = [beganAt EXCEPT ![p] = now]
    /\ pc' = [pc EXCEPT ![p] = "inflight"]
    /\ UNCHANGED <<now, Frequency, earliest, last, readers, writer, started,
                   expired, lastCopy, devices, err, ret, wasExpired, seenLast,
                   changedSince, at, updLast, updPrev, priorUpd, priorUpd2, prevOutcome,
                   prevCalls, prevAt, soonAfterPrev, overlap, lastFrom>>

\* c.Wrap.Devices returns. On an error refreshDevices returns at once;
\* otherwise it goes on to take the write lock.
WrapReturn(p) ==
    /\ pc[p] = "inflight"
    /\ UNCHANGED <<mdVars, trVars, hVars, mainVars, paVars>>
    /\ UNCHANGED <<retShared, mutated>>
    /\ \E o \in Outcomes :
         /\ devices' = [devices EXCEPT ![p] = o.devices]
         /\ err' = [err EXCEPT ![p] = o.err]
         /\ IF ~o.err.nil
            THEN /\ ret' = [ret EXCEPT ![p] =
                              FailureReturn(o.devices, lastCopy[p], o.err)]
                 /\ at' = [at EXCEPT ![p] = now]
                 /\ earliest' = EarliestOnFailure(earliest, now, Frequency)
                 /\ beganAt' = [beganAt EXCEPT ![p] = NoTime]
                 /\ pc' = [pc EXCEPT ![p] = "done"]
            ELSE /\ pc' = [pc EXCEPT ![p] = "lock"]
                 /\ UNCHANGED <<ret, at, earliest, beganAt>>
    /\ UNCHANGED <<now, Frequency, last, readers, writer, started,
                   expired, lastCopy, callsInCall, wasExpired, seenLast,
                   changedSince, updLast, updPrev, priorUpd, priorUpd2, prevOutcome,
                   prevCalls, prevAt, soonAfterPrev, lastBegin, overlap,
                   lastFrom>>

\* c.mu.Lock(), first half: the writer announces itself, which keeps new
\* readers and other writers out.
LockBegin(p) ==
    /\ pc[p] = "lock"
    /\ UNCHANGED <<mdVars, trVars, hVars, mainVars, paVars>>
    /\ UNCHANGED <<retShared, mutated>>
    /\ writer = Unlocked
    /\ writer' = p
    /\ pc' = [pc EXCEPT ![p] = "lockwait"]
    /\ UNCHANGED <<now, Frequency, earliest, last, readers, started,
                   expired, lastCopy, devices, err, ret, rlHist>>

\* c.mu.Lock(), second half: the readers inside have left and the lock is
\* held; then c.last = devices.
LockStoreLast(p) ==
    /\ pc[p] = "lockwait"
    /\ UNCHANGED <<mdVars, trVars, hVars, mainVars, paVars>>
    /\ readers = {}
    /\ last' = devices[p]
    /\ lastFrom' = beganAt[p]
    /\ beganAt' = [beganAt EXCEPT ![p] = NoTime]
    /\ retShared' = [q \in Callers |-> FALSE]
    /\ UNCHANGED mutated
    /\ changedSince' = [q \in Callers |-> TRUE]
    /\ pc' = [pc EXCEPT ![p] = "storeEarliest"]
    /\ UNCHANGED <<now, Frequency, earliest, readers, writer, started,
                   expired, lastCopy, devices, err, ret, callsInCall,
                   wasExpired, seenLast, at, updLast, updPrev, priorUpd,
                   priorUpd2, prevOutcome, prevCalls, prevAt, soonAfterPrev,
                   lastBegin, overlap>>

\* A bug: the time is taken before the lock, with the read of the cache.
StoreTime_AtRead(p) == at[p]

\* time.Now() in refreshDevices: the clock when the write lock is held.
StoreTime(p) == now

\* c.earliest = time.Now().Add(c.Frequency); return devices, nil, with the
\* deferred c.mu.Unlock().
StoreEarliestUnlock(p) ==
    /\ pc[p] = "storeEarliest"
    /\ UNCHANGED <<mdVars, trVars, hVars, mainVars, paVars>>
    /\ earliest' = NextEarliest(StoreTime(p), Frequency)
    /\ at' = [at EXCEPT ![p] = now]
    /\ updPrev' = updLast
    /\ updLast' = <<devices[p], now>>
    /\ changedSince' = [q \in Callers |-> TRUE]
    /\ writer' = Unlocked
    /\ ret' = [ret EXCEPT ![p] = SuccessReturn(devices[p])]
    /\ retShared' = [retShared EXCEPT ![p] = TRUE]
    /\ UNCHANGED mutated
    /\ pc' = [pc EXCEPT ![p] = "done"]
    /\ UNCHANGED <<now, Frequency, last, readers, started, expired, lastCopy,
                   devices, err, callsInCall, wasExpired, seenLast, priorUpd,
                   priorUpd2, prevOutcome, prevCalls, prevAt, soonAfterPrev,
                   lastBegin, overlap, beganAt, lastFrom>>

\* What a caller writes into an element of a list it was returned.
Mutated == "changed"

\* The list s after the caller's write to its first element.
WrittenTo(s) == [s EXCEPT ![1] = Mutated]

\* The caller of a finished Devices call writes to the first element of
\* the slice it was returned. ret keeps what the call returned; the write
\* lands in c.last when the slice has c.last's backing array, which is so
\* after `c.last = devices; return devices, nil` until the next store.
Mutate(p) ==
    /\ pc[p] = "done"
    /\ UNCHANGED <<mdVars, trVars, hVars, mainVars, paVars>>
    /\ Len(ret[p].devices) > 0
    /\ ~mutated[p]
    /\ mutated' = [mutated EXCEPT ![p] = TRUE]
    /\ last' = IF retShared[p] THEN WrittenTo(last) ELSE last
    /\ UNCHANGED <<now, Frequency, earliest, readers, writer, started, pc,
                   expired, lastCopy, devices, err, ret, retShared, rlHist>>

RLNext ==
    \/ Tick
    \/ \E p \in Callers : Call(p)
    \/ \E p \in Callers : RLockRead(p)
    \/ \E p \in Callers : RUnlock(p)
    \/ \E p \in Callers : WrapBegin(p)
    \/ \E p \in Callers : WrapReturn(p)
    \/ \E p \in Callers : LockBegin(p)
    \/ \E p \in Callers : LockStoreLast(p)
    \/ \E p \in Callers : StoreEarliestUnlock(p)


(***************************************************************************)
(* MultiDiscoverer.Devices.                                                *)
(***************************************************************************)
Slots == 1..NumDiscoverers

\* The error the i-th contained discoverer fails with.
SourceError(i) == NewError("source " \o ToString(i) \o " failed")

\* The devices of the model, by ID.
DeviceIDs == {"d1", "d2"}

\* Device lists a contained discoverer may return.
SourceLists == {<< >>, <<"d1">>, <<"d2", "d1">>}

\* What the i-th contained discoverer's Devices can return: any list with
\* a nil error or with its error (a failing call may return devices).
OutcomesOf(i) == [devices : SourceLists, err : {NoError, SourceError(i)}]

\* context.Canceled, as the HTTP client returns it for a request whose
\* context is canceled.
ContextCanceled == NewError("context canceled")

\* What a contained discoverer's Devices can return besides, once ctx is
\* canceled: `return nil, err` with the error of client.Do.
CanceledOutcomes(isCanceled) ==
    IF isCanceled THEN {[devices |-> << >>, err |-> ContextCanceled]}
    ELSE {}

\* The zero discoveryResult, as make([]discoveryResult, n) fills it in.
ZeroResult == [devices |-> << >>, err |-> NoError]

\* A bug: the results are stored in the order the sub-calls complete.
ResultSlot_ByCompletion(i, completed) == completed + 1

\* go func(d, &results[i]): the goroutine of md[i] owns slot i, whatever
\* number of sub-calls have completed before it.
ResultSlot(i, completed) == i

\* A bug: the join is skipped.
WaitDone_NoWait(counter) == TRUE

\* wg.Wait() returns when the counter is zero.
WaitDone(counter) == counter = 0

\* A bug: only the first error is kept.
AccumulateError_First(errs, e) == IF errs.nil THEN e ELSE errs

\* errs = errors.Join(errs, err)
AccumulateError(errs, e) == ErrorsJoin(errs, e)

\* The merge loop over results[0..k-1]: the devices appended so far.
RECURSIVE MergeDevices(_, _)
MergeDevices(res, k) ==
    IF k = 0 THEN << >>
    ELSE MergeDevices(res, k - 1) \o res[k].devices

\* The merge loop over results[0..k-1]: the errors joined so far.
RECURSIVE MergeErrors(_, _)
MergeErrors(res, k) ==
    IF k = 0 THEN NoError
    ELSE IF res[k].err.nil THEN MergeErrors(res, k - 1)
         ELSE AccumulateError(MergeErrors(res, k - 1), res[k].err)

MDInit ==
    /\ n \in 0..NumDiscoverers
    /\ mpc = "start"
    /\ idx = 1
    /\ wg = 0
    /\ results = [i \in Slots |-> ZeroResult]
    /\ tpc = [i \in Slots |-> "none"]
    /\ mret = ZeroResult
    /\ canceled = FALSE
    /\ outcome = [i \in Slots |-> ZeroResult]
    /\ outOfOrder = FALSE
    /\ launches = [i \in Slots |-> 0]
    /\ subCalls = [i \in Slots |-> 0]
    /\ writers = [k \in Slots |-> << >>]

\* The state of a MultiDiscoverer nobody calls.
MDIdle == MDInit /\ n = 0

\* The state of a RateLimitedDiscoverer nobody calls.
RLIdle == RLInit /\ Frequency = 0

\* n := len(md); results := make([]discoveryResult, n); wg.Add(n)
MDBegin ==
    /\ mpc = "start"
    /\ wg' = n
    /\ results' = [i \in Slots |-> ZeroResult]
    /\ idx' = 1
    /\ mpc' = IF n = 0 THEN "wait" ELSE "launch"
    /\ UNCHANGED <<n, tpc, mret, canceled, outcome, outOfOrder, launches,
                   subCalls, writers>>
    /\ UNCHANGED <<rlVars, rlHist, trVars, hVars, mainVars, paVars>>

\* One round of the loop: go func(d, &results[i]) {...}(d, &results[i])
Launch ==
    /\ mpc = "launch"
    /\ tpc' = [tpc EXCEPT ![idx] = "ready"]
    /\ launches' = [launches EXCEPT ![idx] = @ + 1]
    /\ idx' = idx + 1
    /\ mpc' = IF idx = n THEN "wait" ELSE "launch"
    /\ UNCHANGED <<n, wg, results, mret, canceled, outcome, outOfOrder,
                   subCalls, writers>>
    /\ UNCHANGED <<rlVars, rlHist, trVars, hVars, mainVars, paVars>>

\* The goroutine of md[i] calls d.Devices(ctx).
TaskCall(i) ==
    /\ tpc[i] = "ready"
    /\ tpc' = [tpc EXCEPT ![i] = "calling"]
    /\ subCalls' = [subCalls EXCEPT ![i] = @ + 1]
    /\ UNCHANGED <<n, mpc, idx, wg, results, mret, canceled, outcome,
                   outOfOrder, launches, writers>>
    /\ UNCHANGED <<rlVars, rlHist, trVars, hVars, mainVars, paVars>>

\* d.Devices returns; the goroutine stores the result in its slot and
\* the deferred wg.Done() runs.
TaskReturn(i) ==
    /\ tpc[i] = "calling"
    /\ \E o \in OutcomesOf(i) \cup CanceledOutcomes(canceled) :
         /\ results' = [results EXCEPT ![ResultSlot(i, n - wg)] = o]
         /\ outcome' = [outcome EXCEPT ![i] = o]
    /\ writers' = [writers EXCEPT ![ResultSlot(i, n - wg)] = Append(@, i)]
    /\ wg' = wg - 1
    /\ tpc' = [tpc EXCEPT ![i] = "done"]
    /\ outOfOrder' = (outOfOrder \/ \E j \in 1..(i - 1) : tpc[j] # "done")
    /\ UNCHANGED <<n, mpc, idx, mret, canceled, launches, subCalls>>
    /\ UNCHANGED <<rlVars, rlHist, trVars, hVars, mainVars, paVars>>

\* wg.Wait() returns; the results are merged in slot order and returned.
WaitMerge ==
    /\ mpc = "wait"
    /\ WaitDone(wg)
    /\ mret' = [devices |-> MergeDevices(results, n),
                err |-> MergeErrors(results, n)]
    /\ mpc' = "returned"
    /\ UNCHANGED <<n, idx, wg, results, tpc, canceled, outcome, outOfOrder,
                   launches, subCalls, writers>>
    /\ UNCHANGED <<rlVars, rlHist, trVars, hVars, mainVars, paVars>>

\* The ctx of the request is canceled while md.Devices runs. Devices and
\* its goroutines do not look at ctx; they hand it to d.Devices.
Cancel ==
    /\ mpc \in {"start", "launch", "wait"}
    /\ ~canceled
    /\ canceled' = TRUE
    /\ UNCHANGED <<n, mpc, idx, wg, results, tpc, mret, outcome, outOfOrder,
                   launches, subCalls, writers>>
    /\ UNCHANGED <<rlVars, rlHist, trVars, hVars, mainVars, paVars>>

MDNext ==
    \/ MDBegin
    \/ Launch
    \/ \E i \in Slots : TaskCall(i)
    \/ \E i \in Slots : TaskReturn(i)
    \/ WaitMerge
    \/ Cancel

(***************************************************************************)
(* translate and its filters (src/tailscalesd.go).                         *)
(***************************************************************************)
LabelMetaAPI == "__meta_tailscale_api"
LabelMetaDeviceAuthorized == "__meta_tailscale_device_authorized"
LabelMetaDeviceClientVersion == "__meta_tailscale_device_client_version"
LabelMetaDeviceHostname == "__meta_tailscale_device_hostname"
LabelMetaDeviceID == "__meta_tailscale_device_id"
LabelMetaDeviceName == "__meta_tailscale_device_name"
LabelMetaDeviceOS == "__meta_tailscale_device_os"
LabelMetaTailnet == "__meta_tailscale_tailnet"

\* A device as the public API reports it.
PublicDevice ==
    [Addresses |-> <<"100.2.3.4", "fd7a::1234">>, API |-> "foo.example.com",
     Authorized |-> FALSE, ClientVersion |-> "420.69",
     Hostname |-> "somethingclever", ID |-> "id1", Name |-> "somethingclever",
     OS |-> "beos", Tailnet |-> "example@gmail.com", Tags |-> << >>]

\* A device as the local API reports it: no client version, name or
\* tailnet; two tags.
LocalDevice ==
    [Addresses |-> <<"100.5.6.7">>, API |-> "localhost",
     Authorized |-> TRUE, ClientVersion |-> "",
     Hostname |-> "otherhost", ID |-> "id2", Name |-> "",
     OS |-> "linux", Tailnet |-> "", Tags |-> <<"tag:foo", "tag:bar">>]

\* A device with an IPv4-mapped IPv6 address, an address that is no IP
\* address, an IPv6 address, no OS and one tag.
OddDevice ==
    [Addresses |-> <<"::ffff:100.5.6.7", "GARBAGE", "fd7a::5678">>,
     API |-> "foo.example.com",
     Authorized |-> TRUE, ClientVersion |-> "1.2",
     Hostname |-> "odd", ID |-> "id3", Name |-> "odd.example.com",
     OS |-> "", Tailnet |-> "example@gmail.com", Tags |-> <<"tag:Prod-1234">>]

TheDevices == {PublicDevice, LocalDevice, OddDevice}

\* The device lists of up to MaxDevices devices.
TranslateInputs == UNION {[1..k -> TheDevices] : k \in 0..MaxDevices}

\* fmt.Sprint of a bool.
SprintBool(b) == IF b THEN "true" ELSE "false"

\* A bug: only the entries with an empty key are removed.
filterEmpty_KeysOnly(in) == [k \in {x \in DOMAIN in : x # ""} |-> in[k]]

\* filterEmpty: the entries of the map with neither an empty key nor an
\* empty value. A map is a function from its keys; the nil map and the
\* empty map are both the function with no key.
filterEmpty(in) ==
    [k \in {x \in DOMAIN in : x # "" /\ in[x] # ""} |-> in[k]]

\* net.ParseIP on the address strings of the model: what it parses as.
ParseIP(target) ==
    CASE target \in {"100.2.3.4", "100.5.6.7"} -> "IPv4"
      [] target = "::ffff:100.5.6.7" -> "IPv4-mapped"
      [] target \in {"fd7a::1234", "fd7a::5678"} -> "IPv6"
      [] OTHER -> "nil"

\* ip.To4().String() for an address with a non-nil To4.
To4String(target) ==
    IF target = "::ffff:100.5.6.7" THEN "100.5.6.7" ELSE target

\* The loop of filterIPv6Addresses: what does not parse is skipped, what
\* has a To4 form is appended in that form, the rest is not appended.
RECURSIVE IPv4Targets(_)
IPv4Targets(ts) ==
    IF ts = << >> THEN << >>
    ELSE (IF ParseIP(Head(ts)) \in {"IPv4", "IPv4-mapped"}
          THEN <<To4String(Head(ts))>>
          ELSE << >>) \o IPv4Targets(Tail(ts))

filterIPv6Addresses(td) ==
    [Targets |-> IPv4Targets(td.Targets), Labels |-> td.Labels]

filterEmptyLabels(td) ==
    [Targets |-> td.Targets, Labels |-> filterEmpty(td.Labels)]

\* The label and the value of the filter the test of translate passes.
TestLabel == "test_label"
TestLabelValue == "IT WORKED"

\* func(in TargetDescriptor) TargetDescriptor { in.Labels[k] = v;
\* return in }: the map gets the key k with the value v, whether or not
\* it had the key.
SetLabel(td, k, v) ==
    [Targets |-> td.Targets,
     Labels |-> [x \in DOMAIN td.Labels \cup {k} |->
                   IF x = k THEN v ELSE td.Labels[x]]]

\* The values of type filter, by name: the two filters of the package,
\* the filter of the test that sets test_label, and a filter of a caller
\* that sets test_label to the empty string.
Filters ==
    {"filterEmptyLabels", "filterIPv6Addresses", "setTestLabel",
     "clearTestLabel"}

\* filter(target)
ApplyFilter(f, td) ==
    CASE f = "filterEmptyLabels" -> filterEmptyLabels(td)
      [] f = "filterIPv6Addresses" -> filterIPv6Addresses(td)
      [] f = "setTestLabel" -> SetLabel(td, TestLabel, TestLabelValue)
      [] f = "clearTestLabel" -> SetLabel(td, TestLabel, "")

\* The filter lists of up to MaxFilters filters.
FilterLists == UNION {[1..k -> Filters] : k \in 0..MaxFilters}

\* The TargetDescriptor literal translate builds for the device d.
NewTarget(d) ==
    [Targets |-> d.Addresses,
     Labels |-> (LabelMetaAPI :> d.API)
             @@ (LabelMetaDeviceAuthorized :> SprintBool(d.Authorized))
             @@ (LabelMetaDeviceClientVersion :> d.ClientVersion)
             @@ (LabelMetaDeviceHostname :> d.Hostname)
             @@ (LabelMetaDeviceID :> d.ID)
             @@ (LabelMetaDeviceName :> d.Name)
             @@ (LabelMetaDeviceOS :> d.OS)
             @@ (LabelMetaTailnet :> d.Tailnet)]

\* A bug: the filters are applied last to first.
RECURSIVE ApplyFilters_LastFirst(_, _)
ApplyFilters_LastFirst(td, fs) ==
    IF fs = << >> THEN td
    ELSE ApplyFilter(Head(fs), ApplyFilters_LastFirst(td, Tail(fs)))

\* for _, filter := range filters { target = filter(target) }
RECURSIVE ApplyFilters(_, _)
ApplyFilters(td, fs) ==
    IF fs = << >> THEN td
    ELSE ApplyFilters(ApplyFilter(Head(fs), td), Tail(fs))

\* A bug (the behaviour before v0.5.0): a device with tags gets one
\* descriptor per tag, each with the tag in a label.
RECURSIVE translate_PerTag(_, _)
translate_PerTag(devs, fs) ==
    IF devs = << >> THEN << >>
    ELSE LET d == Head(devs)
             t == NewTarget(d)
             tagged(i) == [Targets |-> t.Targets,
                           Labels |-> t.Labels @@
                               ("__meta_tailscale_device_tag" :> d.Tags[i])]
         IN  (IF d.Tags = << >> THEN <<ApplyFilters(t, fs)>>
              ELSE [i \in 1..Len(d.Tags) |-> ApplyFilters(tagged(i), fs)])
             \o translate_PerTag(Tail(devs), fs)

\* A bug: a list without devices is answered with one descriptor without
\* targets and labels.
translate_NeverEmpty(devs, fs) ==
    IF devs = << >> THEN <<[Targets |-> << >>, Labels |-> << >>]>>
    ELSE [i \in 1..Len(devs) |-> ApplyFilters(NewTarget(devs[i]), fs)]

\* translate: for each device, in order, one descriptor, passed through
\* the filters and appended to found.
translate(devs, fs) ==
    [i \in 1..Len(devs) |-> ApplyFilters(NewTarget(devs[i]), fs)]

TrInit ==
    /\ trpc = "call"
    /\ trDevices \in TranslateInputs
    /\ trFilters \in FilterLists
    /\ trFound = << >>

\* translate nobody calls.
TrIdle == TrInit /\ trDevices = << >> /\ trFilters = << >>

\* found = translate(devices, filters...)
Translate ==
    /\ trpc = "call"
    /\ trFound' = translate(trDevices, trFilters)
    /\ trpc' = "returned"
    /\ UNCHANGED <<trDevices, trFilters>>
    /\ UNCHANGED <<rlVars, rlHist, mdVars, hVars, mainVars, paVars>>

TrNext == Translate

(***************************************************************************)
(* discoveryHandler (src/tailscalesd.go).                                  *)
(***************************************************************************)
ErrStaleResults == NewError("potentially stale results")

\* An error of the Tailscale API, as the handler's test makes one.
APIError == NewError("this is a test error")

\* The errors a Discoverer may return to the handler: none, the stale
\* results error itself, an error that wraps it as refreshDevices wraps
\* its stale error, such an error joined with the error of another source
\* as MultiDiscoverer joins errors, an error of the API.
DiscovererErrors ==
    {NoError, ErrStaleResults, ErrorfWV(ErrStaleResults, APIError),
     ErrorsJoin(ErrorfWV(ErrStaleResults, APIError), SourceError(2)),
     APIError}

\* translate(devices, filterEmptyLabels, filterIPv6Addresses)
DefaultFilters == <<"filterEmptyLabels", "filterIPv6Addresses">>

\* What h.d.DiscoverDevices may return: the descriptors of some devices,
\* as discoverer.DiscoverDevices translates them, with any of the errors.
\* elems are the elements of the slice; an empty slice may be nil (the
\* found of translate, the nil of a failed discoverer) or not (the copy
\* of a rateLimitingDiscoverer).
DiscoverResults ==
    {[elems |-> translate(ds, DefaultFilters), nil |-> b, err |-> e] :
        <<ds, b, e>> \in {x \in TranslateInputs \X BOOLEAN \X DiscovererErrors :
                             x[2] => x[1] = << >>}}

StatusOK == 200
StatusInternalServerError == 500

\* The strings of s, one after the other.
RECURSIVE Concat(_)
Concat(s) == IF s = << >> THEN "" ELSE Head(s) \o Concat(Tail(s))

\* The strings of s with sep between them.
RECURSIVE Join(_, _)
Join(s, sep) ==
    IF s = << >> THEN ""
    ELSE IF Len(s) = 1 THEN s[1]
    ELSE s[1] \o sep \o Join(Tail(s), sep)

\* err.Error(), what %v prints of an error.
ErrorText(e) == Concat(e.text)

\* encoding/json of a string with nothing to escape.
EncodeString(str) == "\"" \o str \o "\""

\* encoding/json of a []string; a slice with no element is nil here (the
\* `var targets []string` of filterIPv6Addresses nothing was appended to).
EncodeStrings(ts) ==
    IF ts = << >> THEN "null"
    ELSE "[" \o Join([i \in 1..Len(ts) |-> EncodeString(ts[i])], ",") \o "]"

\* The label keys in the order encoding/json writes the keys of a map:
\* sorted.
LabelOrder ==
    <<LabelMetaAPI, LabelMetaDeviceAuthorized, LabelMetaDeviceClientVersion,
      LabelMetaDeviceHostname, LabelMetaDeviceID, LabelMetaDeviceName,
      LabelMetaDeviceOS, LabelMetaTailnet>>

\* The entries "key":"value" of the keys order[from..] that m has.
RECURSIVE EncodeEntries(_, _, _)
EncodeEntries(m, order, from) ==
    IF from > Len(order) THEN << >>
    ELSE (IF order[from] \in DOMAIN m
          THEN <<EncodeString(order[from]) \o ":"
                   \o EncodeString(m[order[from]])>>
          ELSE << >>) \o EncodeEntries(m, order, from + 1)

\* encoding/json of a TargetDescriptor: `json:"labels,omitempty"` leaves
\* out a map with no entry.
EncodeDescriptor(td) ==
    "{\"targets\":" \o EncodeStrings(td.Targets)
    \o (IF DOMAIN td.Labels = {} THEN ""
        ELSE ",\"labels\":{"
             \o Join(EncodeEntries(td.Labels, LabelOrder, 1), ",") \o "}")
    \o "}"

\* json.NewEncoder(&buf).Encode(targets): null for a nil slice, an array
\* otherwise, and a newline.
EncodeJSON(t) ==
    (IF t.nil THEN "null"
     ELSE "[" \o Join([i \in 1..Len(t.elems) |->
                          EncodeDescriptor(t.elems[i])], ",") \o "]")
    \o "\n"

\* Encode fails for no []TargetDescriptor: strings and maps of strings
\* always encode.
EncodeFails(t) == FALSE

\* A bug: the stale error is looked for with errors.Is, which finds it
\* in an error joined with the error of another source.
FailsDiscovery_ByErrorsIs(e) == ~e.nil /\ ~ErrorsIs(e, ErrStaleResults)

\* A bug: every error is answered with a failure, the stale one too.
FailsDiscovery_AnyError(e) == ~e.nil

\* A bug: the test for the stale error is the wrong way round.
FailsDiscovery_OnlyStale(e) == ~e.nil /\ e = ErrStaleResults

\* if err != nil { if err != ErrStaleResults { ... return } }
FailsDiscovery(e) == ~e.nil /\ e # ErrStaleResults

\* Nothing written to w yet.
NoResponse == [code |-> 0, contentType |-> "", body |-> ""]

\* w.WriteHeader(500); fmt.Fprintf(w, "Failed to discover ...: %v", err)
DiscoveryFailure(e) ==
    [code |-> StatusInternalServerError, contentType |-> "",
     body |-> "Failed to discover Tailscale devices: " \o ErrorText(e)]

\* w.WriteHeader(500); fmt.Fprintf(w, "Failed encoding ...: %v", err)
EncodingFailure ==
    [code |-> StatusInternalServerError, contentType |-> "",
     body |-> "Failed encoding targets to JSON: "]

\* w.Header().Add("Content-Type", "application/json"); io.Copy(w, &buf):
\* the first write sends the status 200.
Payload(t) ==
    [code |-> StatusOK, contentType |-> "application/json",
     body |-> EncodeJSON(t)]

NoTargets == [elems |-> << >>, nil |-> TRUE]

\* The nil Discoverer, and a Discoverer made by New.
NilDiscoverer == "nil"
SomeDiscoverer == "Discoverer"

\* Export(d, pollFrequency): &discoveryHandler{d}, for any d.
Export(d) == d

HInit ==
    /\ hd \in {Export(NilDiscoverer), Export(SomeDiscoverer)}
    /\ hpc = "idle"
    /\ targets = NoTargets
    /\ herr = NoError
    /\ resp = NoResponse

\* A handler nobody sends a request to.
HIdle == HInit /\ hd = SomeDiscoverer

\* A request arrives: ServeHTTP is called.
HRequest ==
    /\ hpc = "idle"
    /\ hpc' = "discover"
    /\ UNCHANGED <<hd, targets, herr, resp>>
    /\ UNCHANGED <<rlVars, rlHist, mdVars, trVars, mainVars, paVars>>

\* targets, err := h.d.DiscoverDevices(r.Context()). The method call on
\* a nil interface value panics (nil pointer dereference): ServeHTTP ends
\* there and has written nothing to w.
HDiscoverDevices ==
    /\ hpc = "discover"
    /\ IF hd = NilDiscoverer
       THEN /\ hpc' = "panicked"
            /\ UNCHANGED <<targets, herr>>
       ELSE /\ \E r \in DiscoverResults :
                 /\ targets' = [elems |-> r.elems, nil |-> r.nil]
                 /\ herr' = r.err
            /\ hpc' = "respond"
    /\ UNCHANGED <<hd, resp>>
    /\ UNCHANGED <<rlVars, rlHist, mdVars, trVars, mainVars, paVars>>

\* The rest of ServeHTTP: the failure answer, or the JSON payload.
HRespond ==
    /\ hpc = "respond"
    /\ resp' = IF FailsDiscovery(herr) THEN DiscoveryFailure(herr)
               ELSE IF EncodeFails(targets) THEN EncodingFailure
               ELSE Payload(targets)
    /\ hpc' = "done"
    /\ UNCHANGED <<hd, targets, herr>>
    /\ UNCHANGED <<rlVars, rlHist, mdVars, trVars, mainVars, paVars>>

HNext ==
    \/ HRequest
    \/ HDiscoverDevices
    \/ HRespond

(***************************************************************************)
(* main of cmd/tailscalesd: from the parsed flags to ListenAndServe.       *)
(***************************************************************************)
\* Values of the string flags -token, -client_id, -client_secret: unset
\* or set.
Tokens == {"", "tskey-api"}
ClientIDs == {"", "client"}
ClientSecrets == {"", "secret"}

\* Values of -poll, in seconds: negative, zero, the default of 5 minutes.
PollLimits == {-1, 0, 300}

\* The flag variables pflag.Parse() may leave.
FlagValues ==
    [printVer : BOOLEAN, useLocalAPI : BOOLEAN, includeIPv6 : BOOLEAN,
     token : Tokens, clientID : ClientIDs, clientSecret : ClientSecrets,
     pollLimit : PollLimits]

\* The flag variables when no flag and no environment variable is given.
DefaultFlags ==
    [printVer |-> FALSE, useLocalAPI |-> FALSE, includeIPv6 |-> FALSE,
     token |-> "", clientID |-> "", clientSecret |-> "", pollLimit |-> 300]

\* useOAuth := clientID != "" && clientSecret != ""
useOAuth(f) == f.clientID # "" /\ f.clientSecret # ""

\* useToken := token != ""
useToken(f) == f.token # ""

\* var ts tailscalesd.Discoverer: the nil Discoverer has no layer.
NilTS == << >>

\* What pflag.Usage() prints.
UsageText == "Usage of tailscalesd: ..."

VersionText == "tailscalesd version development\n"
ExclusiveText == "Local API mode and Public API mode are mutually exclusive.\n"
NotBothText ==
    "Provide either an API token, or OAuth2 credentials; not both.\n"

\* A bug: the cases that refuse mixed strategies are missing; the first
\* strategy that is asked for is taken.
Switch_NoExclusion(f) ==
    CASE f.printVer ->
           [return |-> TRUE, output |-> <<VersionText>>, ts |-> NilTS]
      [] f.useLocalAPI ->
           [return |-> FALSE, output |-> << >>, ts |-> <<"LocalAPI">>]
      [] useOAuth(f) ->
           [return |-> FALSE, output |-> << >>, ts |-> <<"OAuth">>]
      [] useToken(f) ->
           [return |-> FALSE, output |-> << >>, ts |-> <<"APIKey">>]
      [] OTHER ->
           [return |-> FALSE, output |-> << >>, ts |-> NilTS]

\* switch { case printVer: ... case useToken: ... }: the first case that
\* is true is taken; there is no default case, so ts stays nil when no
\* case is true.
Switch(f) ==
    CASE f.printVer ->
           [return |-> TRUE, output |-> <<VersionText>>, ts |-> NilTS]
      [] f.useLocalAPI /\ (useOAuth(f) \/ useToken(f)) ->
           [return |-> TRUE, output |-> <<ExclusiveText, UsageText>>,
            ts |-> NilTS]
      [] useOAuth(f) /\ useToken(f) ->
           [return |-> TRUE, output |-> <<NotBothText, UsageText>>,
            ts |-> NilTS]
      [] f.useLocalAPI ->
           [return |-> FALSE, output |-> << >>, ts |-> <<"LocalAPI">>]
      [] useOAuth(f) ->
           [return |-> FALSE, output |-> << >>, ts |-> <<"OAuth">>]
      [] useToken(f) ->
           [return |-> FALSE, output |-> << >>, ts |-> <<"APIKey">>]
      [] OTHER ->
           [return |-> FALSE, output |-> << >>, ts |-> NilTS]

\* &tailscalesd.RateLimitedDiscoverer{Wrap: ts, Frequency: pollLimit}
RateLimited(d) == <<"RateLimited">> \o d

NotHandled == [d |-> NilTS, filters |-> << >>, set |-> FALSE]

MainInit ==
    /\ flags \in FlagValues
    /\ mainpc = "switch"
    /\ tsd = NilTS
    /\ filters = << >>
    /\ output = << >>
    /\ handled = NotHandled
    /\ serving = FALSE

\* The state of a main that was started without flags.
MainIdle == MainInit /\ flags = DefaultFlags

\* The switch over the flags: main returns from the first three cases.
MainSwitch ==
    /\ mainpc = "switch"
    /\ output' = output \o Switch(flags).output
    /\ tsd' = Switch(flags).ts
    /\ mainpc' = IF Switch(flags).return THEN "returned" ELSE "ratelimit"
    /\ UNCHANGED <<flags, filters, handled, serving>>
    /\ UNCHANGED <<rlVars, rlHist, mdVars, trVars, hVars, paVars>>

\* if pollLimit > 0 { ts = &tailscalesd.RateLimitedDiscoverer{...} }
MainRateLimit ==
    /\ mainpc = "ratelimit"
    /\ tsd' = IF flags.pollLimit > 0 THEN RateLimited(tsd) ELSE tsd
    /\ mainpc' = "filters"
    /\ UNCHANGED <<flags, filters, output, handled, serving>>
    /\ UNCHANGED <<rlVars, rlHist, mdVars, trVars, hVars, paVars>>

\* if !includeIPv6 { filters = append(filters, FilterIPv6Addresses) }
MainFilters ==
    /\ mainpc = "filters"
    /\ filters' = IF ~flags.includeIPv6
                  THEN Append(filters, "FilterIPv6Addresses")
                  ELSE filters
    /\ mainpc' = "handle"
    /\ UNCHANGED <<flags, tsd, output, handled, serving>>
    /\ UNCHANGED <<rlVars, rlHist, mdVars, trVars, hVars, paVars>>

\* http.Handle("/", tailscalesd.Export(ts, filters...))
MainHandle ==
    /\ mainpc = "handle"
    /\ handled' = [d |-> tsd, filters |-> filters, set |-> TRUE]
    /\ mainpc' = "listen"
    /\ UNCHANGED <<flags, tsd, filters, output, serving>>
    /\ UNCHANGED <<rlVars, rlHist, mdVars, trVars, hVars, paVars>>

\* server.ListenAndServe()
MainListenAndServe ==
    /\ mainpc = "listen"
    /\ serving' = TRUE
    /\ mainpc' = "serving"
    /\ UNCHANGED <<flags, tsd, filters, output, handled>>
    /\ UNCHANGED <<rlVars, rlHist, mdVars, trVars, hVars, paVars>>

MainNext ==
    \/ MainSwitch
    \/ MainRateLimit
    \/ MainFilters
    \/ MainHandle
    \/ MainListenAndServe

(***************************************************************************)
(* publicAPIDiscoverer.Devices.                                            *)
(***************************************************************************)
errFailedAPIRequest == NewError("failed API request")

\* The status codes the server may answer with.
StatusCodes == {200, 204, 304, 404, 500}

\* The response bodies the server may send: an object with a list of
\* devices, an object without one, a JSON value of another type than
\* deviceAPIResponse can take, text that is no JSON, nothing.
Bodies == {"devices", "object", "wrongType", "notJSON", "empty"}

\* The devices of the body "devices", as the decoder fills them in.
BodyDevices ==
    <<[Hostname |-> "testhostname", OS |-> "beos", API |-> "",
       Tailnet |-> ""]>>

\* json.NewDecoder(resp.Body).Decode(&d): the error and d.Devices.
Decode(body) ==
    CASE body = "devices" -> [err |-> NoError, Devices |-> BodyDevices]
      [] body = "object" -> [err |-> NoError, Devices |-> << >>]
      [] body = "wrongType" ->
           [err |-> NewError("json: cannot unmarshal"), Devices |-> << >>]
      [] body = "notJSON" ->
           [err |-> NewError("invalid character"), Devices |-> << >>]
      [] body = "empty" -> [err |-> NewError("EOF"), Devices |-> << >>]

\* resp.Status
StatusText(code) == NewError(ToString(code))

\* A bug: only the server errors count as failed.
StatusFailed_ServerErrors(code) == code >= 500

\* (resp.StatusCode / 100) != 2
StatusFailed(code) == (code \div 100) # 2

\* fmt.Errorf("%w: bad payload from API: %v", errFailedAPIRequest, err)
BadPayload(e) ==
    [nil |-> FALSE, tree |-> errFailedAPIRequest.tree,
     text |-> errFailedAPIRequest.text \o <<": bad payload from API: ">>
              \o e.text]

\* The errors http.NewRequestWithContext and a.client.Do fail with.
BadURL == NewError("parse: invalid URL")
DoFailed == NewError("Get: connection refused")

\* The host and the tailnet the discoverer is made for.
APIBase == "api.tailscale.com"
Tailnet == "testTailnet"

\* d.Devices[i].API = a.apiBase; d.Devices[i].Tailnet = a.tailnet
Stamped(devs) ==
    [i \in 1..Len(devs) |->
       [devs[i] EXCEPT !.API = APIBase, !.Tailnet = Tailnet]]

\* What Devices returns once it has the response: the status is looked
\* at first, then the body is decoded.
Respond(server) ==
    IF StatusFailed(server.status)
    THEN [devices |-> << >>,
          err |-> ErrorfWV(errFailedAPIRequest, StatusText(server.status))]
    ELSE IF ~Decode(server.body).err.nil
    THEN [devices |-> << >>, err |-> BadPayload(Decode(server.body).err)]
    ELSE [devices |-> Stamped(Decode(server.body).Devices),
          err |-> NoError]

PAInit ==
    /\ papc = "start"
    /\ paURLValid \in BOOLEAN
    /\ paServer \in [status : StatusCodes, body : Bodies]
    /\ paRequests = 0
    /\ paReceived = FALSE
    /\ paRet = NoReturn

\* The state of a publicAPIDiscoverer nobody calls.
PAIdle ==
    PAInit /\ paURLValid /\ paServer = [status |-> 200, body |-> "object"]

\* req, err := http.NewRequestWithContext(...); if err != nil { return
\* nil, err }
PANewRequest ==
    /\ papc = "start"
    /\ IF paURLValid
       THEN /\ papc' = "do"
            /\ UNCHANGED paRet
       ELSE /\ papc' = "returned"
            /\ paRet' = [devices |-> << >>, err |-> BadURL]
    /\ UNCHANGED <<paURLValid, paServer, paRequests, paReceived>>
    /\ UNCHANGED <<rlVars, rlHist, mdVars, trVars, hVars, mainVars>>

\* resp, err := a.client.Do(req): the request is sent; either the
\* transport fails, and Devices returns the error, or the response of the
\* server arrives.
PADo ==
    /\ papc = "do"
    /\ paRequests' = paRequests + 1
    /\ \/ /\ paReceived' = TRUE
          /\ papc' = "respond"
          /\ UNCHANGED paRet
       \/ /\ paReceived' = FALSE
          /\ papc' = "returned"
          /\ paRet' = [devices |-> << >>, err |-> DoFailed]
    /\ UNCHANGED <<paURLValid, paServer>>
    /\ UNCHANGED <<rlVars, rlHist, mdVars, trVars, hVars, mainVars>>

\* The status check, the decoding of the body, the loop over the devices
\* and the return.
PARespond ==
    /\ papc = "respond"
    /\ paRet' = Respond(paServer)
    /\ papc' = "returned"
    /\ UNCHANGED <<paURLValid, paServer, paRequests, paReceived>>
    /\ UNCHANGED <<rlVars, rlHist, mdVars, trVars, hVars, mainVars>>

PANext ==
    \/ PANewRequest
    \/ PADo
    \/ PARespond

\* A RateLimitedDiscoverer in use, next to a MultiDiscoverer nobody calls.
InitRateLimited == RLInit /\ MDIdle /\ TrIdle /\ HIdle /\ MainIdle /\ PAIdle

SpecRateLimited == InitRateLimited /\ [][RLNext]_vars

\* A step of the call of p after its begin. At most one of them is
\* enabled at a time, by where the call is.
StepOf(p) ==
    \/ RLockRead(p)
    \/ RUnlock(p)
    \/ WrapBegin(p)
    \/ WrapReturn(p)
    \/ LockBegin(p)
    \/ LockStoreLast(p)
    \/ StoreEarliestUnlock(p)

\* The scheduler runs every goroutine that can take a step, sync.RWMutex
\* hands the lock to a goroutine that waits for it once it stays free,
\* and the wrapped call returns: weak fairness of the steps of every
\* call. Nothing is assumed of the clock or of new calls.
RLFairness == \A p \in Callers : WF_vars(StepOf(p))

SpecRateLimitedLive == InitRateLimited /\ [][RLNext]_vars /\ RLFairness

\* The cache with callers that write to the lists they were returned.
RLNextMutating ==
    \/ RLNext
    \/ \E p \in Callers : Mutate(p)

SpecRateLimitedMutating == InitRateLimited /\ [][RLNextMutating]_vars

\* A MultiDiscoverer in use, next to a cache nobody calls.
InitMulti == RLIdle /\ MDInit /\ TrIdle /\ HIdle /\ MainIdle /\ PAIdle

SpecMulti == InitMulti /\ [][MDNext]_vars

\* translate in use, next to components nobody calls.
InitTranslate == RLIdle /\ MDIdle /\ TrInit /\ HIdle /\ MainIdle /\ PAIdle

SpecTranslate == InitTranslate /\ [][TrNext]_vars

\* The handler in use, next to components nobody calls.
InitHandler == RLIdle /\ MDIdle /\ TrIdle /\ HInit /\ MainIdle /\ PAIdle

SpecHandler == InitHandler /\ [][HNext]_vars

\* main in use, next to components nobody calls.
InitMain == RLIdle /\ MDIdle /\ TrIdle /\ HIdle /\ MainInit /\ PAIdle

SpecMain == InitMain /\ [][MainNext]_vars

\* publicAPIDiscoverer.Devices in use, next to components nobody calls.
InitPublicAPI ==
    RLIdle /\ MDIdle /\ TrIdle /\ HIdle /\ MainIdle /\ PAInit

SpecPublicAPI == InitPublicAPI /\ [][PANext]_vars

(***************************************************************************)
(* Properties of RateLimitedDiscoverer.                                    *)
(***************************************************************************)
\* Goroutine p has read the cache in its current call.
HasRead(p) == at[p] # NoTime

Failed(p) == pc[p] = "done" /\ ~ret[p].err.nil

\* C1: a Devices call that finds the cache not expired (the clock is not
\* past earliest at its read) never reaches refreshDevices: it makes no
\* call of the wrapped source, and it returns the snapshot as it was at
\* the read, with a nil error.
C1_HitServedFromCache ==
    \A p \in Callers :
        (HasRead(p) /\ ~wasExpired[p]) =>
            /\ pc[p] \in {"runlock", "done"}
            /\ callsInCall[p] = 0
            /\ pc[p] = "done" =>
                 /\ ret[p].devices = seenLast[p]
                 /\ ret[p].err = NoError

\* A call served a non-empty snapshot from the cache.
C1_Witness ==
    \E p \in Callers :
        /\ pc[p] = "done"
        /\ HasRead(p)
        /\ ~wasExpired[p]
        /\ seenLast[p] # << >>
        /\ ret[p].devices = seenLast[p]

\* C2 (as claimed): when the cache holds a snapshot S of an earlier
\* refresh and the wrapped source fails on an expired call, the call
\* returns S and an error matching errStaleResults.
C2_StaleFallbackReturnsSnapshot ==
    \A p \in Callers :
        (Failed(p) /\ wasExpired[p] /\ priorUpd[p] # NoUpdate) =>
            /\ ret[p].devices = seenLast[p]
            /\ ErrorsIs(ret[p].err, errStaleResults)

\* C3: every call that finds the cache expired calls the wrapped source
\* exactly once, whether that call succeeds or fails, and no call calls it
\* more than once; a call on a fresh instance (earliest still the zero
\* time) always finds the cache expired.
C3_ExpiredCallsWrappedOnce ==
    \A p \in Callers :
        /\ callsInCall[p] <= 1
        /\ (HasRead(p) /\ earliest = ZeroTime) => wasExpired[p]
        /\ (wasExpired[p] /\ pc[p] \notin {"runlock", "refresh"}) =>
               callsInCall[p] = 1

\* A goroutine's second call, expired again after its own successful
\* refresh, has failed after calling the wrapped source once.
C3_Witness ==
    \E p \in Callers :
        /\ Failed(p)
        /\ wasExpired[p]
        /\ prevOutcome[p] = "ok"
        /\ callsInCall[p] = 1

\* A call that read the cache while the update u it recorded was the
\* latest one, before that update's earliest, was served u's devices from
\* the cache.
ServedFrom(q, u) ==
    (pc[q] = "done" /\ u # NoUpdate /\ u[2]) =>
        /\ ret[q] = [devices |-> u[1], err |-> NoError]
        /\ callsInCall[q] = 0

FailingReturn(p) == pc[p] = "inflight" /\ pc'[p] = "done"

BeginsWrapped(p) == pc[p] = "refresh" /\ pc'[p] = "inflight"

\* C6 (as claimed): any two calls of the wrapped source begin at least
\* Frequency apart.
C6_WrappedCallsFrequencyApart ==
    [][\A p \in Callers :
         (BeginsWrapped(p) /\ lastBegin # NoTime) =>
             now - lastBegin >= Frequency]_vars

\* C7 (as claimed): for Frequency > 0, two calls a goroutine makes in
\* immediate succession (the second reading the cache less than Frequency
\* after the first) call the wrapped source at most once in total,
\* whatever the wrapped source returned.
C7_TwoCallsAtMostOneRefresh ==
    \A p \in Callers :
        (pc[p] = "done" /\ prevOutcome[p] # "none" /\ Frequency > 0
           /\ soonAfterPrev[p]) =>
            prevCalls[p] + callsInCall[p] <= 1

\* C13: a failed refresh returns the stale-results error only when a
\* snapshot is cached: when no refresh has ever succeeded, the failed call
\* returns the wrapped source's error itself, not marked stale; when a
\* refresh had succeeded before the call read the cache, it returns an
\* error that is the stale-results error.
C13_StaleOnlyWithSnapshot ==
    \A p \in Callers :
        Failed(p) =>
            /\ updLast = NoUpdate =>
                  /\ ret[p].err = err[p]
                  /\ ~ErrorsIs(ret[p].err, errStaleResults)
            /\ priorUpd[p] # NoUpdate =>
                  ErrorsIs(ret[p].err, errStaleResults)

\* C14: the error a failed refresh returns is the stale-results error and
\* still matches the error the wrapped source returned (errors.Is finds
\* both in it).
C14_StaleErrorWrapsCause ==
    \A p \in Callers :
        Failed(p) =>
            /\ ErrorsIs(ret[p].err, errStaleResults)
            /\ ErrorsIs(ret[p].err, err[p])

\* C15: no write of a caller to a list it was returned reaches the cache:
\* c.last never holds an element a caller wrote, and neither does the list
\* a call served from the cache returned.
C15_ReturnedListsIndependentOfCache ==
    /\ \A i \in 1..Len(last) : last[i] # Mutated
    /\ \A q \in Callers :
         OutcomeOf(q) = "hit" =>
             \A i \in 1..Len(ret[q].devices) : ret[q].devices[i] # Mutated

\* C16: a goroutine between its RUnlock and the return of c.Wrap.Devices
\* holds c.mu neither for reading nor for writing, and whoever holds or
\* waits for the write lock has its wrapped call behind it, without an
\* error. So a goroutine at RLock is let in whenever no writer holds or
\* waits for the lock: a caller with its wrapped call in flight does not
\* keep it out, nor do the readers inside.
C16_NoLockWhileWrappedCallInFlight ==
    \A p \in Callers :
        /\ pc[p] \in {"refresh", "inflight", "lock"} =>
              (p \notin readers /\ writer # p)
        /\ writer = p =>
              (pc[p] \in {"lockwait", "storeEarliest"} /\ err[p].nil)
        /\ \A q \in Callers \ {p} :
              (pc[q] = "rlock" /\ pc[p] \in {"inflight", "runlock"}
                 /\ writer \in {Unlocked, p}) =>
                  ENABLED RLockRead(q)

\* One goroutine holds the read lock while the wrapped call of another is
\* in flight.
C16_Witness ==
    \E p, q \in Callers :
        /\ p # q
        /\ pc[p] = "inflight"
        /\ q \in readers

\* C26 as stated: a call whose read of the clock equals earliest is
\* expired, as one whose read is later; only a read before earliest is
\* served from the cache.
C26_ExpiredAtEarliest ==
    \A p \in Callers :
        pc[p] = "runlock" => (expired[p] <=> at[p] >= earliest)

\* C26, amended: a call is expired exactly when its read of the clock is
\* after earliest; a call that reads the clock at earliest or before it is
\* served the copy of the cache without a call of the wrapped source, and
\* only an expired call gets into refreshDevices and calls the wrapped
\* source, once.
C26_ExpiredOnlyAfterEarliest ==
    \A p \in Callers :
        /\ pc[p] = "runlock" => (expired[p] <=> at[p] > earliest)
        /\ Refreshing(p) => expired[p]
        /\ (pc[p] = "done" /\ ~expired[p]) =>
             /\ callsInCall[p] = 0
             /\ ret[p] = HitReturn(lastCopy[p])
        /\ (pc[p] = "done" /\ expired[p]) => callsInCall[p] = 1

\* A call read the clock at the very instant earliest, of a cache that
\* had been refreshed, and was served the snapshot from the cache.
C26_Witness ==
    \E p \in Callers :
        /\ pc[p] = "done"
        /\ updLast # NoUpdate
        /\ ~changedSince[p]
        /\ at[p] = earliest
        /\ ~expired[p]
        /\ callsInCall[p] = 0
        /\ ret[p].devices = last
        /\ last # << >>

\* The calls of p and q both found the cache expired before either had
\* returned from its refresh, and both have returned since.
BothRefreshed(p, q) ==
    /\ p # q
    /\ q \in overlap[p]
    /\ p \in overlap[q]
    /\ pc[p] = "done"
    /\ pc[q] = "done"

\* What the call of p returns of the outcome of its own wrapped call.
OwnResult(p) ==
    [devices |-> devices[p],
     err |-> IF err[p].nil THEN NoError
             ELSE ErrorfWV(errStaleResults, err[p])]

C35_NewerNeverOverwrittenByOlder == [][lastFrom' >= lastFrom]_vars

\* c.earliest and c.last are those of one update: of the latest one, or
\* the zero values when there has been none.
PairOfOneUpdate ==
    IF updLast = NoUpdate THEN last = << >> /\ earliest = ZeroTime
    ELSE last = updLast[1] /\ earliest = updLast[2] + Frequency

\* A refresh is between its two stores.
MidUpdate == \E q \in Callers : pc[q] = "storeEarliest"

\* C36: c.last and c.earliest are written and read as a pair: they are
\* those of one update except between the two stores of a refresh, and no
\* call reads them then; what a call has read under the read lock is the
\* pair of one update.
C36_PairReadAndWrittenAtomically ==
    /\ ~MidUpdate => PairOfOneUpdate
    /\ \A p \in Callers :
         pc[p] = "runlock" =>
            /\ ~MidUpdate
            /\ seenLast[p] = last
            /\ expired[p] = Expired(at[p], earliest)

\* A call has read the pair of the latest update while another call,
\* with a different result of the wrapped source, waits for the write
\* lock.
C36_Witness ==
    \E p, q \in Callers :
        /\ pc[p] = "runlock"
        /\ pc[q] = "lockwait"
        /\ updLast # NoUpdate
        /\ seenLast[p] = updLast[1]
        /\ devices[q] # last

\* C38: c.earliest never moves backwards: every value stored to it is
\* greater than or equal to the value it replaces, whatever the
\* interleaving of the calls.
C38_EarliestNeverMovesBackwards == [][earliest' >= earliest]_vars

\* Two calls that refreshed at the same time have both stored, the second
\* store at a later time than the first, and c.earliest is that of the
\* second.
C38_Witness ==
    \E p, q \in Callers :
        /\ BothRefreshed(p, q)
        /\ err[p].nil
        /\ err[q].nil
        /\ updPrev # NoUpdate
        /\ updLast[2] > updPrev[2]
        /\ earliest = updLast[2] + Frequency

\* The call of p has begun and has not returned.
InDevices(p) == pc[p] \notin {"idle", "done"}

\* C37: every Devices call returns, given that its wrapped call returns
\* if it makes one; a call is out of the read lock when its refresh starts
\* and never asks for the write lock while it holds the read lock.
C37_EveryCallReturns ==
    /\ \A p \in Callers : InDevices(p) ~> pc[p] = "done"
    /\ [](\A p \in Callers :
            (Refreshing(p) \/ writer = p) => p \notin readers)

\* All the calls the callers may make have been made and have returned,
\* the last two after refreshes that ran at the same time; the lock is
\* free.
C37_Witness ==
    /\ started = MaxCalls
    /\ \A p \in Callers : pc[p] = "done" /\ callsInCall[p] = 1
    /\ \A p \in Callers : overlap[p] # {}
    /\ readers = {}
    /\ writer = Unlocked

(***************************************************************************)
(* Properties of MultiDiscoverer.                                          *)
(***************************************************************************)
Registered == 1..n

Succeeded(i) == outcome[i].err.nil

\* The number of times device d occurs in the list s.
CountIn(d, s) == Cardinality({j \in DOMAIN s : s[j] = d})

\* The number of times d occurs in the lists of the succeeding
\* discoverers among the first k.
RECURSIVE CountSucceeded(_, _)
CountSucceeded(d, k) ==
    IF k = 0 THEN 0
    ELSE CountSucceeded(d, k - 1)
         + (IF Succeeded(k) THEN CountIn(d, outcome[k].devices) ELSE 0)

\* The total length of the lists the first k discoverers returned.
RECURSIVE LenBefore(_)
LenBefore(k) ==
    IF k = 0 THEN 0 ELSE LenBefore(k - 1) + Len(outcome[k].devices)

C9_MergeInRegistrationOrder ==
    mpc = "returned" =>
        /\ Len(mret.devices) = LenBefore(n)
        /\ \A i \in Registered :
             \A j \in 1..Len(outcome[i].devices) :
                 mret.devices[LenBefore(i - 1) + j] = outcome[i].devices[j]

\* Three discoverers returned different non-empty lists, a later one
\* before an earlier one.
C9_Witness ==
    /\ mpc = "returned"
    /\ n >= 3
    /\ outOfOrder
    /\ outcome[1].devices = <<"d2", "d1">>
    /\ outcome[2].devices = <<"d1">>
    /\ outcome[3].devices = <<"d2", "d1">>
    /\ mret.devices = <<"d2", "d1", "d1", "d2", "d1">>

\* C10: md.Devices has not returned while a sub-call it launched has not:
\* once it has returned, the goroutine of every registered discoverer is
\* done.
C10_ReturnsAfterAllSubCalls ==
    mpc = "returned" => \A i \in Registered : tpc[i] = "done"

\* md.Devices returned after its three sub-calls.
C10_Witness ==
    /\ mpc = "returned"
    /\ n >= 3
    /\ \A i \in Registered : tpc[i] = "done"

\* The first discoverer, in registration order, whose call failed.
FirstFailed == CHOOSE i \in Registered :
                   /\ ~Succeeded(i)
                   /\ \A j \in 1..(i - 1) : Succeeded(j)

\* C18: when md.Devices has returned and some discoverer failed, the error
\* returned is the error of the first failing discoverer, in registration
\* order, and of no other.
C18_ReturnsFirstErrorAlone ==
    (mpc = "returned" /\ \E i \in Registered : ~Succeeded(i)) =>
        mret.err = outcome[FirstFailed].err

\* C17: once the ctx is canceled, md.Devices returns without waiting for
\* a sub-call that has not returned: at its join it can go on to return
\* whatever the number of sub-calls still running.
C17_CanceledCallReturnsPromptly ==
    (canceled /\ mpc = "wait") => ENABLED WaitMerge

\* C30: MultiDiscoverer.Devices starts one goroutine per contained
\* discoverer and none besides; each calls its discoverer's Devices once
\* and stores to its own slot of results only, so that no slot is stored
\* to by two goroutines; and the slots are read, by the merge, only when
\* every goroutine has finished.
C30_OneTaskPerDiscovererOwnSlot ==
    /\ \A i \in Slots :
         /\ launches[i] <= 1
         /\ subCalls[i] <= launches[i]
         /\ i > n => launches[i] = 0
         /\ writers[i] \in {<< >>, <<i>>}
         /\ writers[i] = <<i>> <=> tpc[i] = "done"
    /\ mpc \in {"wait", "returned"} => \A i \in 1..n : launches[i] = 1
    /\ mpc = "returned" =>
         \A i \in 1..n :
            /\ tpc[i] = "done"
            /\ subCalls[i] = 1
            /\ writers[i] = <<i>>

\* Devices of a MultiDiscoverer of several discoverers has returned; the
\* goroutines finished in another order than they were started in, and
\* each slot was stored to once, by its own goroutine.
C30_Witness ==
    /\ mpc = "returned"
    /\ n = NumDiscoverers
    /\ outOfOrder
    /\ \A i \in 1..n : writers[i] = <<i>> /\ subCalls[i] = 1

KeptByFilter(target) == ParseIP(target) \in {"IPv4", "nil"}

\* C21: filterIPv6Addresses, as the only filter of translate, leaves in
\* the targets of each descriptor the IPv4 addresses and the strings that
\* are no IP address, in their order in the device's addresses, leaves out
\* every IPv6 address, and leaves the labels as translate made them.
C21_IPv6FilterKeepsGarbage ==
    (trpc = "returned" /\ trFilters = <<"filterIPv6Addresses">>) =>
        \A i \in 1..Len(trDevices) :
            LET addrs == trDevices[i].Addresses
                out == trFound[i].Targets
                ToKeep(a) == \E j \in 1..Len(addrs) :
                                 addrs[j] = a /\ KeptByFilter(a)
            IN  /\ SelectSeq(out, ToKeep) = SelectSeq(addrs, KeptByFilter)
                /\ \A j \in 1..Len(out) : ParseIP(out[j]) # "IPv6"
                /\ trFound[i].Labels = NewTarget(trDevices[i]).Labels

\* The suffix of the label key the README derives from the tags of the
\* model: without "tag:", in lower case, with "_" for ":" and "-", EMPTY
\* for nothing.
TagLabelSuffix(tag) ==
    CASE tag = "tag:foo" -> "foo"
      [] tag = "tag:bar" -> "bar"
      [] tag = "tag:Prod-1234" -> "prod_1234"
      [] tag \in {"", "tag:"} -> "EMPTY"

\* C22: for every tag of a device, the descriptor of the device has the
\* label "__meta_tailscale_device_tag_" followed by the suffix derived
\* from the tag, with the value "1".
C22_TagLabels ==
    trpc = "returned" =>
        \A i \in 1..Len(trDevices) :
            \A t \in 1..Len(trDevices[i].Tags) :
                LET key == "__meta_tailscale_device_tag_"
                             \o TagLabelSuffix(trDevices[i].Tags[t])
                IN  /\ i <= Len(trFound)
                    /\ key \in DOMAIN trFound[i].Labels
                    /\ trFound[i].Labels[key] = "1"

\* The descriptor td after the first k filters of fs, one after the
\* other: the output of a filter is the input of the next.
RECURSIVE AfterFilters(_, _, _)
AfterFilters(td, fs, k) ==
    IF k = 0 THEN td
    ELSE ApplyFilter(fs[k], AfterFilters(td, fs, k - 1))

\* C31: every descriptor translate returns is the descriptor built for
\* its device after all the given filters, applied in the given order,
\* the output of one being the input of the next.
C31_FiltersAppliedInOrder ==
    trpc = "returned" =>
        /\ Len(trFound) = Len(trDevices)
        /\ \A i \in 1..Len(trFound) :
             trFound[i] =
                 AfterFilters(NewTarget(trDevices[i]), trFilters,
                              Len(trFilters))

\* Two devices were translated with a filter that sets a label to the
\* empty string followed by the filter that drops empty labels: the label
\* is in no descriptor, as it would be with the filters the other way
\* round.
C31_Witness ==
    /\ trpc = "returned"
    /\ Len(trDevices) = 2
    /\ Len(trFilters) > 1
    /\ trFilters[1] = "clearTestLabel"
    /\ trFilters[2] = "filterEmptyLabels"
    /\ \A i \in 1..Len(trFound) : TestLabel \notin DOMAIN trFound[i].Labels
    /\ TestLabel \in DOMAIN
          ApplyFilter("clearTestLabel",
                      ApplyFilter("filterEmptyLabels",
                                  NewTarget(trDevices[1]))).Labels

\* The label that holds a tag of the device, one descriptor per tag.
LabelMetaDeviceTag == "__meta_tailscale_device_tag"

\* The number of descriptors of a device: one per tag, one if it has none.
DescriptorsOf(d) == IF d.Tags = << >> THEN 1 ELSE Len(d.Tags)

RECURSIVE DescriptorsBefore(_, _)
DescriptorsBefore(devs, i) ==
    IF i = 1 THEN 0
    ELSE DescriptorsBefore(devs, i - 1) + DescriptorsOf(devs[i - 1])

C33_NoDevicesNoDescriptors ==
    trpc = "returned" =>
        /\ trDevices = << >> => trFound = << >>
        /\ trFound = << >> => trDevices = << >>

\* A list without devices was translated with filters, to nothing.
C33_Witness ==
    /\ trpc = "returned"
    /\ trDevices = << >>
    /\ Len(trFilters) > 1
    /\ trFound = << >>

C12_OtherErrorsFail ==
    (hpc = "done" /\ ~herr.nil /\ ~ErrorsIs(herr, ErrStaleResults)) =>
        /\ resp.code = StatusInternalServerError
        /\ resp.contentType # "application/json"
        /\ resp.body = "Failed to discover Tailscale devices: "
                         \o ErrorText(herr)
        /\ herr = APIError =>
             resp.body =
               "Failed to discover Tailscale devices: this is a test error"

\* An error of the API came with descriptors and the answer was the
\* failure.
C12_Witness ==
    /\ hpc = "done"
    /\ herr = APIError
    /\ Len(targets.elems) > 0
    /\ resp.code = StatusInternalServerError

IsStaleKind(e) == ErrorsIs(e, ErrStaleResults)

\* The encoding of a list of descriptors as a JSON array, one object per
\* descriptor, and a newline.
JSONArray(elems) ==
    "[" \o Join([i \in 1..Len(elems) |-> EncodeDescriptor(elems[i])], ",")
    \o "]\n"

\* C23: when the discoverer returned no error, the answer has the status
\* 200, the Content-Type "application/json; charset=utf-8" and, as body, a
\* JSON array with one object of targets and labels per descriptor.
C23_SuccessResponse ==
    (hpc = "done" /\ herr.nil) =>
        /\ resp.code = StatusOK
        /\ resp.contentType = "application/json; charset=utf-8"
        /\ resp.body = JSONArray(targets.elems)

\* C24: a handler exported with the nil Discoverer answers a request with
\* the status 500 and the text 'Attempted to serve with an improperly
\* initialized handler.'; it does not panic and does not get to the
\* discoverer's result.
C24_NilDiscovererAnswered ==
    (hd = NilDiscoverer /\ hpc \notin {"idle", "discover"}) =>
        /\ hpc = "done"
        /\ resp.code = StatusInternalServerError
        /\ resp.body =
             "Attempted to serve with an improperly initialized handler."

\* C27: when the discoverer returned an error of the stale kind as the
\* deployed chain makes it (the stale results error wrapped by the cache,
\* possibly joined by the aggregator), the handler answers with the
\* status 200 and the payload of the descriptors, never with 500.
C27_ChainStaleErrorServed ==
    (hpc = "done" /\ IsStaleKind(herr)
       /\ herr.tree = ErrStaleResults.tree) =>
        /\ resp.code = StatusOK
        /\ resp.body = EncodeJSON(targets)

\* C28: when the error the discoverer returned joins a stale results
\* error of one source with an error of another source that is not
\* stale, the handler answers with the status 500 and the failure text,
\* not with a payload.
C28_JoinedWithOtherErrorFails ==
    (hpc = "done" /\ IsStaleKind(herr)
       /\ herr.tree # ErrStaleResults.tree) =>
        /\ resp.code = StatusInternalServerError
        /\ resp.contentType # "application/json"
        /\ resp.body = "Failed to discover Tailscale devices: "
                         \o ErrorText(herr)

\* A stale results error joined with the error of a second source came
\* with descriptors, and the answer was the failure.
C28_Witness ==
    /\ hpc = "done"
    /\ ErrorsIs(herr, ErrStaleResults)
    /\ ErrorsIs(herr, SourceError(2))
    /\ Len(targets.elems) > 0
    /\ resp.code = StatusInternalServerError

(***************************************************************************)
(* Properties of main.                                                     *)
(***************************************************************************)
\* The flags ask for more than one discovery strategy.
MixedStrategies(f) ==
    \/ f.useLocalAPI /\ (useToken(f) \/ useOAuth(f))
    \/ useToken(f) /\ useOAuth(f)

UsagePrinted == \E i \in 1..Len(output) : output[i] = UsageText

\* main has got past the switch, towards serving.
PastSwitch == mainpc \notin {"switch", "returned"}

\* C25 as stated: whenever the flags mix two discovery strategies, main
\* prints the usage and returns, and never serves.
C25_MixedStrategiesPrintUsage ==
    MixedStrategies(flags) =>
        /\ ~PastSwitch
        /\ ~serving
        /\ mainpc = "returned" => UsagePrinted

\* C25, amended: whenever the flags mix two discovery strategies, main
\* returns from the switch and never builds a discoverer, registers a
\* handler or serves; it has then printed the message of the conflict
\* and the usage, unless -version is given too, in which case it has
\* printed the version alone.
C25_MixedStrategiesNeverServe ==
    MixedStrategies(flags) =>
        /\ ~PastSwitch
        /\ ~serving
        /\ ~handled.set
        /\ tsd = NilTS
        /\ mainpc = "returned" =>
             IF flags.printVer THEN output = <<VersionText>>
             ELSE /\ Len(output) = 2
                  /\ output[1] =
                       IF flags.useLocalAPI THEN ExclusiveText
                       ELSE NotBothText
                  /\ output[2] = UsageText

\* main was given a token and OAuth credentials, printed the usage and
\* returned.
C25_Witness ==
    /\ useToken(flags)
    /\ useOAuth(flags)
    /\ ~flags.useLocalAPI
    /\ ~flags.printVer
    /\ mainpc = "returned"
    /\ output = <<NotBothText, UsageText>>
    /\ ~serving

(***************************************************************************)
(* Properties of publicAPIDiscoverer.                                      *)
(***************************************************************************)
\* The status code is one of the successful ones, 200 to 299.
Successful(code) == code \in 200..299

\* The body is JSON text.
Parseable(body) == body \in {"devices", "object", "wrongType"}

FailedAPIRequest(r) ==
    r.devices = << >> /\ ErrorsIs(r.err, errFailedAPIRequest)

\* C34: a call of Devices sends one request at most, and no second one
\* after a failure; when the server has answered with a status that is
\* not 2xx, or with a body that is no JSON, Devices returns no devices and
\* an error that is errFailedAPIRequest by errors.Is; it returns devices
\* with a nil error only when the answer was 2xx with a JSON body.
C34_FailedRequestsReported ==
    /\ paRequests <= 1
    /\ papc = "returned" =>
         /\ paRequests = IF paURLValid THEN 1 ELSE 0
         /\ (paReceived /\ ~Successful(paServer.status)) =>
              FailedAPIRequest(paRet)
         /\ (paReceived /\ ~Parseable(paServer.body)) =>
              FailedAPIRequest(paRet)
         /\ paRet.err.nil =>
              /\ paReceived
              /\ Successful(paServer.status)
              /\ Parseable(paServer.body)

\* The server answered 404 with a body that would decode, and Devices
\* returned the failed request error after its one request.
C34_Witness ==
    /\ papc = "returned"
    /\ paReceived
    /\ paServer = [status |-> 404, body |-> "devices"]
    /\ paRequests = 1
    /\ paRet.devices = << >>
    /\ ErrorsIs(paRet.err, errFailedAPIRequest)

\* The flags ask for no discovery strategy.
NoStrategy(f) == ~f.useLocalAPI /\ ~useToken(f) /\ ~useOAuth(f)

\* C39: when the flags ask for no discovery strategy and not for the
\* version, main prints the usage and returns; it does not wrap the nil
\* Discoverer in a RateLimitedDiscoverer, register a handler of it or
\* serve.
C39_NeverServesUnsetDiscoverer ==
    (NoStrategy(flags) /\ ~flags.printVer) =>
        /\ ~PastSwitch
        /\ tsd = NilTS
        /\ ~handled.set
        /\ ~serving
        /\ mainpc = "returned" => UsagePrinted

====
